---- MODULE Spec2Model ----
(***************************************************************************)
(* glif2svg: one conversion run of src/src/main.rs.                        *)
(*                                                                         *)
(* Numbers.  Coordinates are f32/f64 in the program.  Here a number is an  *)
(* integer counting units of 10^-FracDigits (fixed point), so 15 with      *)
(* FracDigits = 1 is 1.5.  Arithmetic on them is exact; what is kept of    *)
(* f32 is its range: a product or a power of ten above f32::MAX is         *)
(* infinite, inf/inf and 0*inf are NaN.                                    *)
(* Negative zero is not represented: trunc(-0.5) is 0 here, "-0" in Rust.  *)
(***************************************************************************)
EXTENDS Integers, Sequences, FiniteSets, TLC

\* ---- bounds of the model ------------------------------------------------
FracDigits == 1
MaxFmt == 8
MaxVerbs == 2
MaxCoord == 1
MaxWidth == 1
MaxMetric == 1

\* ---- constants of the program -------------------------------------------
MaxPrecision == 255
DefaultPrecision == 16
\* f32::MAX = 3.4028235e38: the largest finite power of ten is 10^38
F32MaxExp10 == 38
\* the five leading digits of f32::MAX
F32MaxLead == 34028

Scale == 10 ^ FracDigits
Half == Scale \div 2

Abs(v) == IF v < 0 THEN 0 - v ELSE v

\* an f32 after the formatter: a finite value, or one of inf, -inf, NaN
Fin(v) == [cls |-> "fin", val |-> v]
NaN == [cls |-> "NaN", val |-> 0]
PosInf == [cls |-> "inf", val |-> 0]
NegInf == [cls |-> "-inf", val |-> 0]
IsFinite(r) == r.cls = "fin"

RECURSIVE Log10Floor(_)
Log10Floor(n) == IF n < 10 THEN 0 ELSE 1 + Log10Floor(n \div 10)

\* f * 10^prec exceeds f32::MAX (prec <= F32MaxExp10)
MulOverflows(v, prec) ==
    LET a == Abs(v)
        ip == a \div Scale
    IN  IF ip = 0 THEN FALSE
        ELSE LET n == Log10Floor(ip)
             IN  IF n + prec > F32MaxExp10 THEN TRUE
                 ELSE IF n + prec < F32MaxExp10 THEN FALSE
                 ELSE a * 10000 > F32MaxLead * (10 ^ n) * Scale

\* f32::trunc(f * 10^prec) / 10^prec, no overflow
TruncAt(v, prec) ==
    IF prec >= FracDigits THEN v
    ELSE LET q == 10 ^ (FracDigits - prec)
         IN  IF v < 0 THEN 0 - ((Abs(v) \div q) * q) ELSE (v \div q) * q

\* SVGPathPen::p
p(prec, v) ==
    IF prec > F32MaxExp10 THEN NaN
    ELSE IF MulOverflows(v, prec) THEN (IF v < 0 THEN NegInf ELSE PosInf)
    ELSE Fin(TruncAt(v, prec))

\* Display of IntegerOrFloat::Float: shortest text, no trailing ".0"
RECURSIVE FracStr(_, _)
FracStr(fr, n) ==
    IF fr = 0 THEN ""
    ELSE ToString(fr \div (10 ^ (n - 1))) \o FracStr(fr % (10 ^ (n - 1)), n - 1)

Display(r) ==
    IF ~IsFinite(r) THEN r.cls
    ELSE LET a == Abs(r.val)
             fr == a % Scale
         IN  (IF r.val < 0 THEN "-" ELSE "") \o ToString(a \div Scale)
             \o (IF fr = 0 THEN "" ELSE "." \o FracStr(fr, FracDigits))

\* ---- inputs ---------------------------------------------------------------
Pt(x, y) == [x |-> x, y |-> y]

\* points left of and below the origin, and right of and above it; none is
\* the origin and none has an integral coordinate
Points ==
    {Pt(0 - Half, Scale + Half)}
    \cup {Pt(c * Scale + Half, 0 - Half) : c \in 1..MaxCoord}
CtrlPoints == {Pt(Scale + Half, Scale + Half)}

\* a verb as the path iterator yields it, with the source-space points it
\* brings; "Conic" stands for the verbs outside the five arms of the match
Verbs ==
    {[verb |-> "Move", pts |-> <<q>>] : q \in Points}
    \cup {[verb |-> "Line", pts |-> <<q>>] : q \in Points}
    \cup {[verb |-> "Quad", pts |-> <<c, q>>] : c \in CtrlPoints, q \in Points}
    \cup {[verb |-> "Cubic", pts |-> <<c, d, q>>] :
              c \in CtrlPoints, d \in CtrlPoints, q \in Points}
    \cup {[verb |-> "Close", pts |-> <<>>]}
    \cup {[verb |-> "Conic", pts |-> <<q, q>>] : q \in CtrlPoints}

RECURSIVE SeqsUpTo(_, _)
SeqsUpTo(S, n) ==
    IF n = 0 THEN {<<>>}
    ELSE LET R == SeqsUpTo(S, n - 1)
         IN  R \cup {Append(s, e) : s \in {t \in R : Len(t) = n - 1}, e \in S}

\* a Skia path starts with a Move
Outlines ==
    {o \in SeqsUpTo(Verbs, MaxVerbs) : o = <<>> \/ o[1].verb = "Move"}

Widths == {w * Scale : w \in 0..MaxWidth}
\* the metadata module: not available; available and ascender_descender is
\* Err; available and it is Ok((ascender, descender))
Metadata ==
    {[available |-> FALSE, ok |-> FALSE, ascender |-> 0, descender |-> 0],
     [available |-> TRUE, ok |-> FALSE, ascender |-> 0, descender |-> 0]}
    \cup {[available |-> TRUE, ok |-> TRUE,
           ascender |-> a * 2 * Scale, descender |-> 0 - (a * Scale)] :
              a \in 1..MaxMetric}
Precisions == {0, DefaultPrecision}

Configs ==
    [no_viewbox : BOOLEAN, no_metrics : BOOLEAN, metadata : Metadata,
     width : Widths, precision : Precisions, outline : Outlines]

VARIABLES cfg, svg, pc, ret, iter, attrs, stderr, stdout, file, fed, fv, fp, fout

vars == <<cfg, svg, pc, ret, iter, attrs, stderr, stdout, file, fed, fv, fp, fout>>

\* ---- SVGPathPen -----------------------------------------------------------
SVGPathPenNew ==
    [path |-> <<>>, minx |-> 0, maxx |-> 0, miny |-> 0, maxy |-> 0,
     precision |-> 4, no_viewbox |-> FALSE]

RECURSIVE consider_min_max(_, _)
consider_min_max(s, points) ==
    IF points = <<>> THEN s
    ELSE LET q == Head(points)
             s1 == IF s.minx > q.x THEN [s EXCEPT !.minx = q.x] ELSE s
             s2 == IF s1.maxx < q.x THEN [s1 EXCEPT !.maxx = q.x] ELSE s1
             s3 == IF s2.miny > q.y THEN [s2 EXCEPT !.miny = q.y] ELSE s2
             s4 == IF s3.maxy < q.y THEN [s3 EXCEPT !.maxy = q.y] ELSE s3
         IN  consider_min_max(s4, Tail(points))

extend_path(s, cmd) == [s EXCEPT !.path = Append(@, cmd)]

viewBox(s) == <<s.minx, s.miny, Abs(s.minx) + s.maxx, Abs(s.miny) + s.maxy>>
width(s) == viewBox(s)[3]
height(s) == viewBox(s)[4]

size_attr_impl(s, name, size) == [name |-> name, value |-> Display(p(s.precision, size)) \o "px"]

px_size_attrs(s) ==
    [kind |-> "px",
     nums |-> <<p(s.precision, width(s)), p(s.precision, height(s))>>,
     text |-> <<size_attr_impl(s, "width", width(s)), size_attr_impl(s, "height", height(s))>>]

viewBox_str(s) ==
    LET vb == viewBox(s)
        n == [i \in 1..4 |-> p(s.precision, vb[i])]
    IN  [kind |-> "viewBox",
         nums |-> n,
         text |-> <<[name |-> "viewBox",
                     value |-> Display(n[1]) \o " " \o Display(n[2]) \o " "
                               \o Display(n[3]) \o " " \o Display(n[4])]>>]

transform_x(s, x) == x
transform_y_viewBox(s, y) == (0 - y) + s.maxy + s.miny
transform_y_wh(s, y) == (0 - y) + s.miny
transform_y(s, y) ==
    IF s.no_viewbox THEN transform_y_wh(s, y) ELSE transform_y_viewBox(s, y)

\* a command of the path data: its letter and its formatted numbers
Cmd(s, letter, points) ==
    [letter |-> letter,
     nums |-> [i \in 1..(2 * Len(points)) |->
                  IF i % 2 = 1 THEN p(s.precision, points[(i + 1) \div 2].x)
                  ELSE p(s.precision, points[i \div 2].y)]]

move_to(s, q) == extend_path(consider_min_max(s, <<q>>), Cmd(s, "M", <<q>>))
line_to(s, q) == extend_path(consider_min_max(s, <<q>>), Cmd(s, "L", <<q>>))
curve_to(s, pts) ==
    extend_path(consider_min_max(s, pts), Cmd(s, "C", <<pts[2], pts[3], pts[4]>>))
qcurve_to(s, pts) ==
    extend_path(consider_min_max(s, pts), Cmd(s, "Q", <<pts[2], pts[3]>>))
close_path(s) == extend_path(s, [letter |-> "Z", nums |-> <<>>])

\* the text of the path data: the pushed pieces, one after the other
CmdStr(c) ==
    LET RECURSIVE Nums(_)
        Nums(i) == IF i > Len(c.nums) THEN ""
                   ELSE " " \o Display(c.nums[i]) \o Nums(i + 1)
    IN  c.letter \o Nums(1)

RECURSIVE PathStr(_)
PathStr(cmds) == IF cmds = <<>> THEN "" ELSE CmdStr(Head(cmds)) \o PathStr(Tail(cmds))

\* what skia_safe::path::Iter yields for the verbs: pts[0] of a Line, Quad,
\* Cubic or Conic is the point the pen is at
RECURSIVE SkIter(_, _, _)
SkIter(vs, prev, start) ==
    IF vs = <<>> THEN <<>>
    ELSE LET v == Head(vs)
         IN  IF v.verb = "Move"
             THEN <<v>> \o SkIter(Tail(vs), v.pts[1], v.pts[1])
             ELSE IF v.verb = "Close"
             THEN <<v>> \o SkIter(Tail(vs), start, start)
             ELSE <<[verb |-> v.verb, pts |-> <<prev>> \o v.pts]>>
                  \o SkIter(Tail(vs), v.pts[Len(v.pts)], start)

\* outline.to_skia_paths(calc_x, calc_y): the points go through the transforms
\* of the pen as it is when apply_outline is entered
to_skia_paths(s, outline) ==
    LET T(q) == Pt(transform_x(s, q.x), transform_y(s, q.y))
    IN  SkIter([i \in 1..Len(outline) |->
                   [verb |-> outline[i].verb,
                    pts |-> [j \in 1..Len(outline[i].pts) |-> T(outline[i].pts[j])]]],
               T(Pt(0, 0)), T(Pt(0, 0)))

\* the points one item hands to consider_min_max
Considered(item) ==
    CASE item.verb = "Move" -> <<item.pts[1]>>
      [] item.verb = "Line" -> <<item.pts[2]>>
      [] item.verb \in {"Quad", "Cubic"} -> item.pts
      [] OTHER -> <<>>

Supported == {"Move", "Line", "Quad", "Cubic", "Close"}

\* the match with a last arm that does nothing: the verb is stepped over
ApplyVerb_skips(s, item) ==
    CASE item.verb = "Move" -> [panicked |-> FALSE, svg |-> move_to(s, item.pts[1])]
      [] item.verb = "Line" -> [panicked |-> FALSE, svg |-> line_to(s, item.pts[2])]
      [] item.verb = "Quad" -> [panicked |-> FALSE, svg |-> qcurve_to(s, item.pts)]
      [] item.verb = "Cubic" -> [panicked |-> FALSE, svg |-> curve_to(s, item.pts)]
      [] item.verb = "Close" -> [panicked |-> FALSE, svg |-> close_path(s)]
      [] OTHER -> [panicked |-> FALSE, svg |-> s]

\* the match of apply_outline on one item: the pen after it, or the panic of
\* unimplemented!()
ApplyVerb(s, item) ==
    CASE item.verb = "Move" -> [panicked |-> FALSE, svg |-> move_to(s, item.pts[1])]
      [] item.verb = "Line" -> [panicked |-> FALSE, svg |-> line_to(s, item.pts[2])]
      [] item.verb = "Quad" -> [panicked |-> FALSE, svg |-> qcurve_to(s, item.pts)]
      [] item.verb = "Cubic" -> [panicked |-> FALSE, svg |-> curve_to(s, item.pts)]
      [] item.verb = "Close" -> [panicked |-> FALSE, svg |-> close_path(s)]
      [] OTHER -> [panicked |-> TRUE, svg |-> s]

\* ---- main -----------------------------------------------------------------
NoDocument == [size |-> <<>>, d |-> ""]
NoNumber == [cls |-> "none", val |-> 0]

MainInit ==
    /\ cfg \in Configs
    /\ svg = [SVGPathPenNew EXCEPT !.precision = cfg.precision,
                                   !.no_viewbox = cfg.no_viewbox]
    /\ pc = "metrics"
    /\ ret = "none"
    /\ iter = <<>>
    /\ attrs = [kind |-> "none", nums |-> <<>>, text |-> <<>>]
    /\ stderr = <<>>
    /\ stdout = NoDocument
    /\ file = NoDocument
    /\ fed = <<>>

FmtIdle == fv = 0 /\ fp = 0 /\ fout = NoNumber

Init == MainInit /\ FmtIdle

\* lines 213-222: the metadata module is there and the lookup succeeds
MetricsOk ==
    /\ pc = "metrics"
    /\ cfg.metadata.available /\ ~cfg.no_metrics /\ cfg.metadata.ok
    /\ svg' = [svg EXCEPT !.maxy = cfg.metadata.ascender, !.miny = cfg.metadata.descender]
    /\ pc' = "width"
    /\ UNCHANGED <<cfg, ret, iter, attrs, stderr, stdout, file, fed, fv, fp, fout>>

\* lines 223-228: the lookup fails, the outline is applied for its extrema
MetricsFailed ==
    /\ pc = "metrics"
    /\ cfg.metadata.available /\ ~cfg.no_metrics /\ ~cfg.metadata.ok
    /\ stderr' = Append(stderr, "Failed to set metrics of SVG from glif font!")
    /\ pc' = "apply_outline"
    /\ ret' = "width"
    /\ UNCHANGED <<cfg, svg, iter, attrs, stdout, file, fed, fv, fp, fout>>

\* lines 229-231: no metadata module, or no metrics wanted
MetricsSkipped ==
    /\ pc = "metrics"
    /\ ~(cfg.metadata.available /\ ~cfg.no_metrics)
    /\ stderr' = Append(stderr, "MFEKmetadata REQUIRED for sane UFO metrics into SVG")
    /\ pc' = "width"
    /\ UNCHANGED <<cfg, svg, ret, iter, attrs, stdout, file, fed, fv, fp, fout>>

\* lines 233-236
SeedWidth ==
    /\ pc = "width"
    /\ svg' = IF ~cfg.no_metrics THEN [svg EXCEPT !.minx = 0, !.maxx = cfg.width] ELSE svg
    /\ pc' = "size"
    /\ UNCHANGED <<cfg, ret, iter, attrs, stderr, stdout, file, fed, fv, fp, fout>>

\* lines 245-251, then on to the call of line 265
SizeAttrs ==
    /\ pc = "size"
    /\ attrs' = IF cfg.no_viewbox THEN px_size_attrs(svg) ELSE viewBox_str(svg)
    /\ pc' = "apply_outline"
    /\ ret' = "write"
    /\ UNCHANGED <<cfg, svg, iter, stderr, stdout, file, fed, fv, fp, fout>>

\* line 134
ApplyOutlineEnter ==
    /\ pc = "apply_outline"
    /\ iter' = to_skia_paths(svg, cfg.outline)
    /\ pc' = "verbs"
    /\ UNCHANGED <<cfg, svg, ret, attrs, stderr, stdout, file, fed, fv, fp, fout>>

\* lines 137-143: one supported verb
ApplyOutlineVerb ==
    /\ pc = "verbs"
    /\ iter # <<>>
    /\ ~ApplyVerb(svg, Head(iter)).panicked
    /\ svg' = ApplyVerb(svg, Head(iter)).svg
    /\ fed' = fed \o Considered(Head(iter))
    /\ iter' = Tail(iter)
    /\ UNCHANGED <<cfg, pc, ret, attrs, stderr, stdout, file, fv, fp, fout>>

\* line 144: unimplemented!() panics, the process ends
ApplyOutlineUnsupported ==
    /\ pc = "verbs"
    /\ iter # <<>>
    /\ ApplyVerb(svg, Head(iter)).panicked
    /\ stderr' = Append(stderr, "not implemented")
    /\ pc' = "panicked"
    /\ UNCHANGED <<cfg, svg, ret, iter, attrs, stdout, file, fed, fv, fp, fout>>

\* line 148
ApplyOutlineReturn ==
    /\ pc = "verbs"
    /\ iter = <<>>
    /\ pc' = ret
    /\ UNCHANGED <<cfg, svg, ret, iter, attrs, stderr, stdout, file, fed, fv, fp, fout>>

Document == [size |-> attrs.text, d |-> PathStr(svg.path)]

\* lines 282-286: an output file was named.  The output argument is read
\* here and nowhere else, so the run learns it at this step.
WriteFile ==
    /\ pc = "write"
    /\ file' = Document
    /\ pc' = "done"
    /\ UNCHANGED <<cfg, svg, ret, iter, attrs, stderr, stdout, fed, fv, fp, fout>>

\* line 288: no output file, or "-"
PrintStdout ==
    /\ pc = "write"
    /\ stdout' = Document
    /\ pc' = "done"
    /\ UNCHANGED <<cfg, svg, ret, iter, attrs, stderr, file, fed, fv, fp, fout>>

Next ==
    \/ MetricsOk
    \/ MetricsFailed
    \/ MetricsSkipped
    \/ SeedWidth
    \/ SizeAttrs
    \/ ApplyOutlineEnter
    \/ ApplyOutlineVerb
    \/ ApplyOutlineUnsupported
    \/ ApplyOutlineReturn
    \/ WriteFile
    \/ PrintStdout

Spec == Init /\ [][Next]_vars

\* ---- the formatter on its own -------------------------------------------
FmtValues == {k * Half : k \in (0 - MaxFmt)..MaxFmt}

MainIdle ==
    /\ cfg = [no_viewbox |-> FALSE, no_metrics |-> FALSE,
              metadata |-> [available |-> FALSE, ok |-> FALSE,
                            ascender |-> 0, descender |-> 0],
              width |-> 0, precision |-> DefaultPrecision, outline |-> <<>>]
    /\ svg = SVGPathPenNew
    /\ pc = "idle"
    /\ ret = "none"
    /\ iter = <<>>
    /\ attrs = [kind |-> "none", nums |-> <<>>, text |-> <<>>]
    /\ stderr = <<>>
    /\ stdout = NoDocument
    /\ file = NoDocument
    /\ fed = <<>>

\* the precision is any u8 (the validator of lines 192-198), the value any f32
InitFmt ==
    /\ MainIdle
    /\ fv \in FmtValues
    /\ fp \in 0..MaxPrecision
    /\ fout = NoNumber

Format ==
    /\ fout = NoNumber
    /\ fout' = p(fp, fv)
    /\ UNCHANGED <<cfg, svg, pc, ret, iter, attrs, stderr, stdout, file, fed, fv, fp>>

NextFmt == Format

SpecFmt == InitFmt /\ [][NextFmt]_vars

\* ---- properties ---------------------------------------------------------
HasUnsupported == \E i \in 1..Len(cfg.outline) : cfg.outline[i].verb \notin Supported
IsX(i) == i % 2 = 1
ViewBoxMode == attrs.kind = "viewBox"

\* the box the emitted size attributes describe, per axis
BoxLo(i) == IF ViewBoxMode THEN attrs.nums[IF IsX(i) THEN 1 ELSE 2].val ELSE 0
BoxHi(i) ==
    IF ViewBoxMode THEN BoxLo(i) + attrs.nums[IF IsX(i) THEN 3 ELSE 4].val
    ELSE attrs.nums[IF IsX(i) THEN 1 ELSE 2].val
AttrsFinite == \A i \in 1..Len(attrs.nums) : IsFinite(attrs.nums[i])

\* C1: at the end of a run every x and y of the path data lies in the box of
\* the emitted viewBox (x in [vx, vx+dx], y in [vy, vy+dy]) or of the emitted
\* width/height (x in [0, width], y in [0, height]).
C1_RoundTripContainment ==
    pc = "done" =>
        /\ AttrsFinite
        /\ \A k \in 1..Len(svg.path) : \A i \in 1..Len(svg.path[k].nums) :
              LET n == svg.path[k].nums[i]
              IN  IsFinite(n) /\ BoxLo(i) <= n.val /\ n.val <= BoxHi(i)

Sizer(s) == IF s.no_viewbox THEN px_size_attrs(s) ELSE viewBox_str(s)

\* C2: the size attributes are evaluated only once apply_outline has finished
\* (nothing is transcoded after them), so the emitted size is the one of the
\* final bounding box.
C2_SizedAfterTranscoding ==
    /\ attrs.kind # "none" => pc \in {"write", "done"}
    /\ pc = "done" => attrs = Sizer(svg)

\* C3: with no_metrics and a non-empty outline (every point of the model is
\* away from the origin) the emitted extent is not zero: it is the one of the
\* observed points.
C3_NoMetricsGeometryExtent ==
    (pc = "done" /\ cfg.no_metrics /\ cfg.outline # <<>>) =>
        /\ attrs = Sizer(svg)
        /\ IF ViewBoxMode THEN attrs.nums[3].val # 0 \/ attrs.nums[4].val # 0
           ELSE attrs.nums[1].val # 0 \/ attrs.nums[2].val # 0

\* C4: with an unsupported verb in the outline the run never gets to writing:
\* nothing reaches the file or stdout, the verb is never stepped over (it stays
\* in front of the loop until the panic), and a run that has stopped has
\* panicked.
C4_UnsupportedVerbAborts ==
    HasUnsupported =>
        /\ stdout = NoDocument /\ file = NoDocument
        /\ pc \notin {"write", "done"}
        /\ pc = "verbs" => \E i \in 1..Len(iter) : iter[i].verb \notin Supported
        /\ ~(ENABLED Next) => pc = "panicked"

\* the panic comes after commands were appended and the size was computed:
\* a partial document exists in memory and none was written
C4_Witness ==
    /\ pc = "panicked"
    /\ HasUnsupported
    /\ svg.path # <<>>
    /\ attrs.kind # "none"
    /\ stdout = NoDocument /\ file = NoDocument

MetricsMissing == ~cfg.no_metrics /\ (~cfg.metadata.available \/ ~cfg.metadata.ok)

\* C5: when metrics are wanted and missing (module unavailable or lookup
\* failed) the run does not abort, a warning is printed, and the emitted
\* vertical extent is not the zero of the initial box (every point of the
\* model has a non-zero y).
C5_MissingMetricsUsesGeometry ==
    (MetricsMissing /\ ~HasUnsupported /\ cfg.outline # <<>>) =>
        /\ pc # "panicked"
        /\ pc # "metrics" => stderr # <<>>
        /\ attrs.kind # "none" =>
              IF ViewBoxMode THEN attrs.nums[2].val # 0 \/ attrs.nums[4].val # 0
              ELSE attrs.nums[2].val # 0

Letter(verb) ==
    CASE verb = "Move" -> "M" [] verb = "Line" -> "L" [] verb = "Quad" -> "Q"
      [] verb = "Cubic" -> "C" [] verb = "Close" -> "Z" [] OTHER -> "?"
Arity(verb) ==
    CASE verb = "Move" -> 1 [] verb = "Line" -> 1 [] verb = "Quad" -> 2
      [] verb = "Cubic" -> 3 [] OTHER -> 0

\* C6: the path data of a finished run is, verb by verb and in their order,
\* one command per verb: the letter of the verb followed by twice its point
\* count of numbers, Z with none, the pieces joined without a separator.
C6_OneTokenGroupPerVerb ==
    pc = "done" =>
        /\ Len(svg.path) = Len(cfg.outline)
        /\ \A i \in 1..Len(svg.path) :
              i <= Len(cfg.outline) =>
                 /\ svg.path[i].letter = Letter(cfg.outline[i].verb)
                 /\ Len(svg.path[i].nums) = 2 * Arity(cfg.outline[i].verb)
        /\ (IF file # NoDocument THEN file ELSE stdout).d = PathStr(svg.path)

\* C7: for every precision 0..255 and every value the formatted value is
\* finite, lies between zero and the value (never further out), and is less
\* than one unit of the last kept digit away from it.
C7_TruncatesTowardZero ==
    fout # NoNumber =>
        /\ IsFinite(fout)
        /\ fv >= 0 => (0 <= fout.val /\ fout.val <= fv)
        /\ fv <= 0 => (fv <= fout.val /\ fout.val <= 0)
        /\ fp >= FracDigits => fout.val = fv
        /\ fp < FracDigits => Abs(fv - fout.val) < 10 ^ (FracDigits - fp)

\* C8: a finished run has appended exactly one command per verb of the outline.
C8_TranscoderRunsOnce == pc = "done" => Len(svg.path) = Len(cfg.outline)

\* the source-space points the verbs of the outline hand over, in order
RECURSIVE ConsideredAll(_)
ConsideredAll(items) ==
    IF items = <<>> THEN <<>> ELSE Considered(Head(items)) \o ConsideredAll(Tail(items))
SourceConsidered == ConsideredAll(SkIter(cfg.outline, Pt(0, 0), Pt(0, 0)))

\* C9: every point handed to consider_min_max is the source-space point of the
\* verb (the k-th point handed over in a pass is the k-th source point).
C9_AccumulatorSeesSourcePoints ==
    \A i \in 1..Len(fed) :
        fed[i] = SourceConsidered[((i - 1) % Len(SourceConsidered)) + 1]

\* C10: once a point has been observed no step increases minx or miny or
\* decreases maxx or maxy.
C10_BoxNeverNarrows ==
    [][fed # <<>> =>
          /\ svg'.minx <= svg.minx /\ svg'.maxx >= svg.maxx
          /\ svg'.miny <= svg.miny /\ svg'.maxy >= svg.maxy]_vars
====
